---- MODULE Spec2Model ----
(***************************************************************************)
(* The multi-agent scraper (src/multi_agent_scraper): Scraper.run seeds an *)
(* asyncio.Queue, starts one task per Agent, waits for the queue's join,   *)
(* cancels the tasks, gathers them and post-processes the result mapping.  *)
(* asyncio is cooperative: the code between two awaits that suspend runs   *)
(* atomically, so every action below is one such stretch of code.          *)
(***************************************************************************)
EXTENDS Integers, Sequences, FiniteSets, TLC

\* ---------------------------------------------------------------- bounds
MaxQueries == 3
MaxAgents == 2
MaxLen == 3
MaxLimit == 2

\* ------------------------------------------------------------- config.py
NUM_AGENTS == 5
MAX_RESULTS_PER_QUERY == 10
MAX_RETRIES == 3
BLACKLIST_DOMAINS == <<"example.com", "spam-site.com">>

\* ------------------------------------------------------- input universes
QueryStrings == {"a", "b"}
Titles == {"t1", "t2"}
\* a url is <<scheme, netloc, path>>
Urls == {<<"http", "x.com", "/1">>, <<"http", "x.com", "/2">>, <<"https", "y.org", "/1">>,
         <<"http", "spam-site.com", "/1">>, <<"http", "example.com", "/1">>}
None == "None"

SeqsUpTo(S, n) == UNION {[1..k -> S] : k \in 0..n}
Range(s) == {s[i] : i \in 1..Len(s)}
Min(a, b) == IF a < b THEN a ELSE b
Max(a, b) == IF a > b THEN a ELSE b

RECURSIVE Pow2(_)
Pow2(n) == IF n <= 0 THEN 1 ELSE 2 * Pow2(n - 1)

\* ---------------------------------------------------------------- utils.py
extract_domain(url) == url[2]

SearchResult(title, url) ==
    [title |-> title, url |-> url, snippet |-> "", domain |-> extract_domain(url)]

\* html_content is the sequence of its div.g blocks, each with the text of
\* its h3 and the href of its link, either of which may be missing
RECURSIVE parse_search_results(_)
parse_search_results(html_content) ==
    IF html_content = <<>> THEN <<>>
    ELSE LET result == Head(html_content)
             rest == parse_search_results(Tail(html_content))
         IN IF result.h3 # None /\ result.href # None
            THEN <<SearchResult(result.h3, result.href)>> \o rest
            ELSE rest

\* a check that lets every result through
KeepsEvery(url, seen_urls) == TRUE

KeepsFirst(url, seen_urls) == url \notin seen_urls

RECURSIVE unique_from(_, _)
unique_from(results, seen_urls) ==
    IF results = <<>> THEN <<>>
    ELSE LET result == Head(results)
         IN IF KeepsFirst(result.url, seen_urls)
            THEN <<result>> \o unique_from(Tail(results), seen_urls \cup {result.url})
            ELSE unique_from(Tail(results), seen_urls)

\* a deduplication that puts each new result in front of the ones it has
Reverse(s) == [i \in 1 .. Len(s) |-> s[Len(s) + 1 - i]]
remove_duplicates_prepends(results) == Reverse(unique_from(results, {}))

remove_duplicates(results) == unique_from(results, {})

\* a filter that removes nothing
filter_nothing(results, blacklist_domains) == results

filter_results(results, blacklist_domains) ==
    IF blacklist_domains = <<>> THEN results
    ELSE SelectSeq(results, LAMBDA result : result.domain \notin Range(blacklist_domains))

\* ------------------------------------------------------------- scraper.py
\* Python's s[:m]: the first m entries, and for m < 0 all but the last -m
\* a slice that keeps one entry too many
SliceOffByOne(s, m) == SubSeq(s, 1, Min(m + 1, Len(s)))

\* a slice that starts at the second entry
SliceFromSecond(s, m) == SubSeq(s, 2, Min(m + 1, Len(s)))

Slice(s, m) ==
    IF m >= 0 THEN SubSeq(s, 1, Min(m, Len(s)))
    ELSE SubSeq(s, 1, Max(Len(s) + m, 0))

\* a post-processing that truncates first
PostProcessOneSliceFirst(res, limit) ==
    remove_duplicates(filter_results(Slice(res, limit), BLACKLIST_DOMAINS))

PostProcessOne(res, limit) ==
    LET filtered_results == filter_results(res, BLACKLIST_DOMAINS)
        unique_results == remove_duplicates(filtered_results)
    IN Slice(unique_results, limit)

\* a post-processing that drops the queries left without results
PostProcessDropsEmpty(store, limit) ==
    [q \in {k \in DOMAIN store : PostProcessOne(store[k], limit) # <<>>} |->
        PostProcessOne(store[q], limit)]

PostProcess(store, limit) == [q \in DOMAIN store |-> PostProcessOne(store[q], limit)]


Limits == (-2 .. MaxLimit) \cup {MAX_RESULTS_PER_QUERY}
RunLimits == {MAX_RESULTS_PER_QUERY}
\* (nothing tells one query string from the other, so the lists that start
\* with "b" are the lists that start with "a" with the two names swapped)
QueryLists == {qs \in SeqsUpTo(QueryStrings, MaxQueries) : qs = <<>> \/ qs[1] = "a"}

\* what one request can come back with: a transport error or timeout, or an
\* http status with the page's content
TransportError == [error |-> TRUE, status |-> 0, content |-> <<>>]
Http(status, content) == [error |-> FALSE, status |-> status, content |-> content]
ScenarioPage == <<[h3 |-> "t1", href |-> <<"http", "x.com", "/1">>],
                  [h3 |-> "t2", href |-> <<"http", "x.com", "/1">>],
                  [h3 |-> "t1", href |-> <<"http", "spam-site.com", "/1">>],
                  [h3 |-> None, href |-> <<"http", "x.com", "/2">>],
                  [h3 |-> "t2", href |-> <<"http", "x.com", "/2">>]>>
\* a page whose blocks all lack their title or their link
MalformedPage == <<[h3 |-> None, href |-> <<"http", "x.com", "/1">>],
                   [h3 |-> "t1", href |-> None]>>
Responses == {TransportError, Http(503, <<>>), Http(200, MalformedPage),
              Http(200, ScenarioPage)}

VARIABLES
    args,              \* the namespace main parsed, when main made the Scraper
    num_agents,        \* Scraper.num_agents
    max_results,       \* Scraper.max_results
    search_queries,    \* the argument of run
    task_queue,        \* Scraper.task_queue: the queue's pending items
    unfinished_tasks,  \* the queue's counter of items put and not yet marked done
    results,           \* Scraper.results
    pc,                \* where run is
    cancel,            \* the agent tasks whose cancellation has been requested
    apc,               \* where each agent's work is
    query,             \* work's local variable query
    attempt,           \* search_with_retry's loop variable
    ids,               \* for each pending item, its position in search_queries
    item,              \* the position of the item each agent is handling, or 0
    calls,             \* how many times search was called for that item
    waits,             \* the backoff sleeps made for that item, in order
    gets,              \* per item, how many times get handed it out
    marks,             \* per item, how many times task_done ran for it
    writes,            \* per query, how many times an agent stored a result for it
    raw,               \* Scraper.results as the agents left it
    gave_up            \* the queries of the "all attempts failed" errors logged

vars == <<args, num_agents, max_results, search_queries, task_queue, unfinished_tasks,
          results, pc, cancel, apc, query, attempt, ids, item, calls, waits, gets,
          marks, writes, raw, gave_up>>

Agents == 0 .. (num_agents - 1)
Items == 1 .. Len(search_queries)
NoResults == [q \in {} |-> <<>>]

\* ----------------------------------------------------------------- cli.py
\* an option of the command line: <<>> when it was not given (None), <<v>>
\* when it was given as the integer v
Absent == <<>>
Given(v) == <<v>>

\* Python's truth value of an Optional[int]: None and 0 are false
Truthy(option) == option # Absent /\ option[1] # 0

\* a getter that tests "is not None"
get_num_agents_unless_none(parsed) ==
    IF parsed.num_agents # Absent THEN parsed.num_agents[1] ELSE NUM_AGENTS

get_num_agents(parsed) ==
    IF Truthy(parsed.num_agents) THEN parsed.num_agents[1] ELSE NUM_AGENTS

get_max_results(parsed) ==
    IF Truthy(parsed.max_results) THEN parsed.max_results[1] ELSE MAX_RESULTS_PER_QUERY

\* no command line: the Scraper is made by a caller that passes n and m itself
NotParsed == [parsed |-> FALSE, num_agents |-> Absent, max_results |-> Absent]

\* ------------------------------------------------------ Scraper.__init__
Fresh(n, m) ==
    /\ num_agents = n
    /\ max_results = m
    /\ search_queries = <<>>
    /\ task_queue = <<>>
    /\ unfinished_tasks = 0
    /\ results = NoResults
    /\ pc = "constructed"
    /\ cancel = {}
    /\ apc = [a \in Agents |-> "new"]
    /\ query = [a \in Agents |-> None]
    /\ attempt = [a \in Agents |-> 0]
    /\ ids = <<>>
    /\ item = [a \in Agents |-> 0]
    /\ calls = [a \in Agents |-> 0]
    /\ waits = [a \in Agents |-> <<>>]
    /\ gets = <<>>
    /\ marks = <<>>
    /\ writes = [q \in QueryStrings |-> 0]
    /\ raw = NoResults
    /\ gave_up = {}

Constructed(n, m) == args = NotParsed /\ Fresh(n, m)

Init == \E n \in 0 .. MaxAgents, m \in RunLimits : Constructed(n, m)

\* ------------------------------------------------------------ Scraper.run
\* lines 18-29: put never suspends on an unbounded queue and join suspends only
\* while items are unfinished, so run reaches its first suspension in one go
\* a join that returns whatever the counter is
JoinedAlways(n) == TRUE

\* asyncio.Queue.join returns at once, or resumes, when nothing is unfinished
Joined(n) == n = 0

StartRun(qs) ==
    /\ search_queries' = qs
    /\ task_queue' = task_queue \o qs
    /\ ids' = ids \o [i \in 1 .. Len(qs) |-> i]
    /\ unfinished_tasks' = unfinished_tasks + Len(qs)
    /\ gets' = [i \in 1 .. Len(qs) |-> 0]
    /\ marks' = [i \in 1 .. Len(qs) |-> 0]
    /\ writes' = [q \in QueryStrings |-> 0]
    /\ apc' = [a \in Agents |-> "created"]
    /\ IF ~ Joined(unfinished_tasks')
       THEN /\ pc' = "join"
            /\ cancel' = {}
            /\ UNCHANGED <<results, raw>>
       ELSE /\ cancel' = Agents
            /\ IF Agents = {}
               THEN /\ raw' = results
                    /\ results' = PostProcess(results, max_results)
                    /\ pc' = "returned"
               ELSE /\ pc' = "gather"
                    /\ UNCHANGED <<results, raw>>
    /\ UNCHANGED <<args, num_agents, max_results, query, attempt, item, calls, waits, gave_up>>

\* the call of run that main makes on the Scraper it has just constructed
Run(qs) == pc = "constructed" /\ StartRun(qs)

\* a further call of run on the same Scraper, once the call before has
\* returned: the queue, the result mapping and the agents are those of __init__
RunAgain(qs) == pc = "returned" /\ StartRun(qs)

\* line 24 resumes once the counter is zero; lines 26-29 cancel every task and
\* suspend in gather
JoinReturns ==
    /\ pc = "join"
    /\ Joined(unfinished_tasks)
    /\ cancel' = Agents
    /\ pc' = "gather"
    /\ UNCHANGED <<args, num_agents, max_results, search_queries, task_queue, unfinished_tasks,
                   results, apc, query, attempt, ids, item, calls, waits, gets,
                   marks, writes, raw, gave_up>>

\* a gather that does not wait for the tasks
EndedOrNot(a) == TRUE

\* the task of agent a is done: cancelled, or ended by an exception
Ended(a) == apc[a] \in {"done", "failed"}

\* line 29 resumes when every task has ended; lines 32-38
GatherReturns ==
    /\ pc = "gather"
    /\ \A a \in Agents : Ended(a)
    /\ raw' = results
    /\ results' = PostProcess(results, max_results)
    /\ pc' = "returned"
    /\ UNCHANGED <<args, num_agents, max_results, search_queries, task_queue, unfinished_tasks,
                   cancel, apc, query, attempt, ids, item, calls, waits, gets, marks, writes,
                   gave_up>>

\* --------------------------------------------------------------- agent.py
\* Agent.search, lines 41-47, on the response the request came back with
Raise == [raised |-> TRUE, value |-> <<>>]
Return(value) == [raised |-> FALSE, value |-> value]
search(resp) ==
    IF resp.error THEN Raise
    ELSE IF resp.status = 200 THEN Return(parse_search_results(resp.content))
    ELSE Return(<<>>)

\* search_with_retry, lines 28-33
\* an except clause that catches nothing
CatchesNothing(out) == FALSE

\* an except clause entered after every attempt
CatchesEverything(out) == TRUE

Catches(out) == out.raised

HasNextAttempt(n) == n + 1 < MAX_RETRIES

\* a backoff that grows linearly
BackoffLinear(n) == 2 * n

Backoff(n) == Pow2(n)

\* asyncio.Queue.get_nowait's popleft and task_done's counter
\* a get that leaves the item in the queue
PopleftKeeps(queue) == queue

Popleft(queue) == Tail(queue)

\* a task_done that counts the item twice
task_done_twice(n) == n - 2

\* a task_done that leaves the counter as it is
task_done_counts_nothing(n) == n

task_done(n) == n - 1

\* a store that keeps the value a key already has
StoreKeepsFirst(store, q, value) ==
    [k \in DOMAIN store \cup {q} |-> IF k \in DOMAIN store THEN store[k] ELSE value]

Store(store, q, value) ==
    [k \in DOMAIN store \cup {q} |-> IF k = q THEN value ELSE store[k]]

\* a store that writes nothing
StoredNowhere(store, q, value) == store

Stored(store, q, value) == Store(store, q, value)

\* search_with_retry has returned or raised: its frame is gone and the agent
\* handles no item any more
Handled(a) ==
    /\ item' = [item EXCEPT ![a] = 0]
    /\ attempt' = [attempt EXCEPT ![a] = 0]
    /\ calls' = [calls EXCEPT ![a] = 0]
    /\ waits' = [waits EXCEPT ![a] = <<>>]

\* line 20: the agent sleeps REQUEST_DELAY before it goes round the loop
\* a work that goes round the loop without the sleep
SkipsDelay(a) == [apc EXCEPT ![a] = "loop"]

SleepsDelay(a) == [apc EXCEPT ![a] = "delay"]

\* work, lines 18-20: the result is stored, the item marked done, and the agent
\* sleeps REQUEST_DELAY. task_done raises ValueError when nothing is unfinished;
\* the handler of line 23 then calls it again and that error ends the task
WorkStores(a, value) ==
    /\ results' = Stored(results, query[a], value)
    /\ writes' = [writes EXCEPT ![query[a]] = @ + 1]
    /\ Handled(a)
    /\ IF unfinished_tasks > 0
       THEN /\ unfinished_tasks' = task_done(unfinished_tasks)
            /\ marks' = [marks EXCEPT ![item[a]] = @ + 1]
            /\ apc' = SleepsDelay(a)
       ELSE /\ apc' = [apc EXCEPT ![a] = "failed"]
            /\ UNCHANGED <<unfinished_tasks, marks>>

\* work, lines 23-25: an exception other than a cancellation is logged, the
\* item marked done, and the loop goes on without the sleep
WorkExcept(a) ==
    /\ IF unfinished_tasks > 0
       THEN /\ unfinished_tasks' = task_done(unfinished_tasks)
            /\ marks' = [marks EXCEPT ![item[a]] = @ + 1]
            /\ apc' = [apc EXCEPT ![a] = "loop"]
       ELSE /\ apc' = [apc EXCEPT ![a] = "failed"]
            /\ UNCHANGED <<unfinished_tasks, marks>>
    /\ results' = results
    /\ writes' = writes
    /\ Handled(a)

\* an agent that can go on only while no other agent is in a request or a
\* backoff, as with a sleep that holds the event loop
AtLoopTopWhenNobodySleeps(a) ==
    /\ apc[a] \in {"created", "delay", "loop"} /\ a \notin cancel
    /\ \A b \in Agents \ {a} : apc[b] \notin {"search", "backoff"}

AtLoopTop(a) == apc[a] \in {"created", "delay", "loop"} /\ a \notin cancel

\* lines 13-17 and 28-30: get returns the head of a non-empty queue without
\* suspending, and the first request goes out
AgentTakes(a) ==
    /\ AtLoopTop(a)
    /\ task_queue # <<>>
    /\ query' = [query EXCEPT ![a] = Head(task_queue)]
    /\ task_queue' = Popleft(task_queue)
    /\ item' = [item EXCEPT ![a] = Head(ids)]
    /\ gets' = [gets EXCEPT ![Head(ids)] = @ + 1]
    /\ ids' = Popleft(ids)
    /\ attempt' = [attempt EXCEPT ![a] = 0]
    /\ calls' = [calls EXCEPT ![a] = 1]
    /\ waits' = [waits EXCEPT ![a] = <<>>]
    /\ apc' = [apc EXCEPT ![a] = "search"]
    /\ UNCHANGED <<args, num_agents, max_results, search_queries, unfinished_tasks, results,
                   pc, cancel, marks, writes, raw, gave_up>>

\* line 15 on an empty queue: the agent suspends in get
AgentWaits(a) ==
    /\ AtLoopTop(a)
    /\ task_queue = <<>>
    /\ apc' = [apc EXCEPT ![a] = "get"]
    /\ UNCHANGED <<args, num_agents, max_results, search_queries, task_queue, unfinished_tasks,
                   results, pc, cancel, query, attempt, ids, item, calls, waits, gets,
                   marks, writes, raw, gave_up>>

\* line 33: the agent sleeps the backoff of the attempt that failed
\* a retry that sends the next request without the sleep
RetriesAtOnce(a) == [apc EXCEPT ![a] = "search"]

SleepsBackoff(a) == [apc EXCEPT ![a] = "backoff"]

\* the request of the current attempt comes back: lines 30-33, then 18-20
SearchCompletes(a, resp) ==
    /\ apc[a] = "search"
    /\ a \notin cancel
    /\ LET out == search(resp)
       IN IF Catches(out)
          THEN /\ waits' = [waits EXCEPT ![a] = Append(@, Backoff(attempt[a]))]
               /\ apc' = SleepsBackoff(a)
               /\ UNCHANGED <<unfinished_tasks, results, marks, writes, item, attempt, calls>>
          ELSE IF out.raised THEN WorkExcept(a) ELSE WorkStores(a, out.value)
    /\ UNCHANGED <<args, num_agents, max_results, search_queries, task_queue, pc, cancel,
                   query, ids, gets, raw, gave_up>>

\* the sleep of line 33 ends: the next attempt of line 28, or lines 34-35 and
\* then 18-20 when the range is used up
BackoffElapses(a) ==
    /\ apc[a] = "backoff"
    /\ a \notin cancel
    /\ IF HasNextAttempt(attempt[a])
       THEN /\ attempt' = [attempt EXCEPT ![a] = @ + 1]
            /\ calls' = [calls EXCEPT ![a] = @ + 1]
            /\ apc' = [apc EXCEPT ![a] = "search"]
            /\ UNCHANGED <<unfinished_tasks, results, marks, writes, item, waits, gave_up>>
       ELSE /\ gave_up' = gave_up \cup {query[a]}
            /\ WorkStores(a, <<>>)
    /\ UNCHANGED <<args, num_agents, max_results, search_queries, task_queue, pc, cancel,
                   query, ids, gets, raw>>

\* lines 21-22: a cancelled task gets CancelledError at the await it is
\* suspended in (or before its first step) and leaves the loop, whatever it
\* was doing; its frames are gone
\* a cancellation that does not reach a task that has not started
SuspendedOnceStarted(a) == apc[a] \in {"get", "search", "backoff", "delay", "loop"}

\* a cancellation that does not reach an agent suspended in get
SuspendedButNotInGet(a) == apc[a] \in {"created", "search", "backoff", "delay", "loop"}

Suspended(a) == apc[a] \in {"created", "get", "search", "backoff", "delay", "loop"}

AgentCancelled(a) ==
    /\ a \in cancel
    /\ Suspended(a)
    /\ apc' = [apc EXCEPT ![a] = "done"]
    /\ query' = [query EXCEPT ![a] = None]
    /\ Handled(a)
    /\ UNCHANGED <<args, num_agents, max_results, search_queries, task_queue, unfinished_tasks,
                   results, pc, cancel, ids, gets, marks, writes, raw, gave_up>>

\* main.py line 36: asyncio.run cancels the main task when the program is
\* interrupted, so run leaves its join with CancelledError, and then cancels
\* every task that is left
Interrupt ==
    /\ pc = "join"
    /\ pc' = "interrupted"
    /\ cancel' = Agents
    /\ UNCHANGED <<args, num_agents, max_results, search_queries, task_queue, unfinished_tasks,
                   results, apc, query, attempt, ids, item, calls, waits, gets,
                   marks, writes, raw, gave_up>>

Next ==
    \/ \E qs \in QueryLists : Run(qs)
    \/ \E a \in Agents : AgentTakes(a)
    \/ \E a \in Agents : AgentWaits(a)
    \/ \E a \in Agents : apc[a] = "search" /\ \E resp \in Responses : SearchCompletes(a, resp)
    \/ \E a \in Agents : BackoffElapses(a)
    \/ \E a \in Agents : AgentCancelled(a)
    \/ JoinReturns
    \/ GatherReturns

Spec == Init /\ [][Next]_vars

\* the same program, which may also be interrupted while it runs
NextInterrupted == Next \/ Interrupt

SpecInterrupt == Init /\ [][NextInterrupted]_vars

\* the program under fair scheduling: the event loop runs every coroutine that
\* is ready, every request comes back or times out after REQUEST_TIMEOUT, and
\* every sleep ends, so no step that can be taken is put off for ever
\* (one query list of each length, with both repeated and distinct strings)
FairLists == {[i \in 1 .. k |-> IF i % 2 = 1 THEN "a" ELSE "b"] : k \in 0 .. MaxQueries}

NextFair ==
    \/ \E qs \in FairLists : Run(qs)
    \/ \E a \in Agents : AgentTakes(a)
    \/ \E a \in Agents : AgentWaits(a)
    \/ \E a \in Agents : apc[a] = "search" /\ \E resp \in Responses : SearchCompletes(a, resp)
    \/ \E a \in Agents : BackoffElapses(a)
    \/ \E a \in Agents : AgentCancelled(a)
    \/ JoinReturns
    \/ GatherReturns

Fairness == WF_vars(NextFair)

FairSpec == Init /\ [][NextFair]_vars /\ Fairness

\* one agent and one query, every limit, and the engine answering with any
\* page of up to MaxLen well-formed blocks: the inputs of the post-processing;
\* run may be called again with no query, which post-processes the mapping it
\* has already returned
Hits == [h3 : Titles, href : Urls]
Pages == {Http(200, content) : content \in SeqsUpTo(Hits, MaxLen)}

InitPost == \E m \in Limits : Constructed(1, m)

NextPost ==
    \/ Run(<<"a">>)
    \/ RunAgain(<<>>)
    \/ \E a \in Agents : AgentTakes(a)
    \/ \E a \in Agents : AgentWaits(a)
    \/ \E a \in Agents : apc[a] = "search" /\ \E resp \in Pages : SearchCompletes(a, resp)
    \/ \E a \in Agents : AgentCancelled(a)
    \/ JoinReturns
    \/ GatherReturns

SpecPost == InitPost /\ [][NextPost]_vars

\* main.py, lines 11-23: the Scraper is made with what the getters return for
\* the parsed command line, and run with one query
Options == {Absent} \cup {Given(v) : v \in -2 .. MaxLimit}
Namespaces == [parsed : {TRUE}, num_agents : Options, max_results : Options]

InitCli ==
    \E parsed \in Namespaces :
        /\ args = parsed
        /\ Fresh(get_num_agents(parsed), get_max_results(parsed))

NextCli ==
    \/ Run(<<"a">>)
    \/ \E a \in Agents : AgentTakes(a)
    \/ \E a \in Agents : AgentWaits(a)
    \/ \E a \in Agents : apc[a] = "search" /\ \E resp \in Responses : SearchCompletes(a, resp)
    \/ \E a \in Agents : BackoffElapses(a)
    \/ \E a \in Agents : AgentCancelled(a)
    \/ JoinReturns
    \/ GatherReturns

SpecCli == InitCli /\ [][NextCli]_vars

\* one Scraper whose run is called again and again, each time with at most one
\* query
RerunLists == SeqsUpTo(QueryStrings, 1)

InitRerun == \E m \in RunLimits : Constructed(1, m)

NextRerun ==
    \/ \E qs \in RerunLists : Run(qs)
    \/ \E qs \in RerunLists : RunAgain(qs)
    \/ \E a \in Agents : AgentTakes(a)
    \/ \E a \in Agents : AgentWaits(a)
    \/ \E a \in Agents : apc[a] = "search" /\ \E resp \in Responses : SearchCompletes(a, resp)
    \/ \E a \in Agents : BackoffElapses(a)
    \/ \E a \in Agents : AgentCancelled(a)
    \/ JoinReturns
    \/ GatherReturns

SpecRerun == InitRerun /\ [][NextRerun]_vars

\* ======================================================================
\* The claims
\* ======================================================================

Returned == pc = "returned"
Seeded == pc \in {"join", "gather", "returned"}

\* C1 as stated: for every query list of size K and every N >= 1, the mapping
\* run returns has exactly K keys.
C1_ExactlyKKeys ==
    (Returned /\ num_agents >= 1) => Cardinality(DOMAIN results) = Len(search_queries)

\* C1 as amended: for every query list and every N >= 1, the keys of the
\* mapping run returns are exactly the distinct query strings of the input, so
\* it has K keys when the K queries are pairwise distinct.
C1_KeysAreTheDistinctQueries ==
    (Returned /\ num_agents >= 1) =>
        /\ DOMAIN results = Range(search_queries)
        /\ (\A i, j \in Items : i # j => search_queries[i] # search_queries[j])
              => Cardinality(DOMAIN results) = Len(search_queries)

C1_Witness ==
    /\ Returned
    /\ num_agents = 2
    /\ search_queries = <<"a", "b">>
    /\ Cardinality(DOMAIN results) = 2

\* C2: whenever the queue's counter is zero after seeding, and so whenever run
\* has returned, every input query is a key of the result mapping.
C2_KeysBeforeJoinUnblocks ==
    /\ (Seeded /\ unfinished_tasks = 0) => \A i \in Items : search_queries[i] \in DOMAIN results
    /\ Returned => unfinished_tasks = 0

C2_Witness ==
    /\ pc = "join"
    /\ unfinished_tasks = 0
    /\ Len(search_queries) = 3
    /\ DOMAIN results = {"a", "b"}
    /\ results["a"] = <<>>

\* an agent whose every attempt for its item has failed, in the backoff sleep
\* that follows the last one
Exhausted(a) == apc[a] = "backoff" /\ calls[a] = MAX_RETRIES
Handling(a) == apc[a] \in {"search", "backoff"}

\* C3: when every attempt for a query has failed, the agent stores the empty
\* list for it and marks its item done, no exception reaches work and no task
\* dies, the other agents are left as they are, and while items are unfinished
\* some agent is still able to take or finish one; run returns with every item
\* marked.
C3_StepAfterLastFailure ==
    \A a \in Agents :
        (Exhausted(a) /\ apc'[a] # apc[a]) =>
            /\ apc'[a] = "delay"
            /\ query[a] \in DOMAIN results'
            /\ results'[query[a]] = <<>>
            /\ marks'[item[a]] = marks[item[a]] + 1
            /\ unfinished_tasks' = unfinished_tasks - 1
            /\ \A b \in Agents \ {a} : apc'[b] = apc[b] /\ item'[b] = item[b]

C3_PoolGoesOn ==
    /\ \A a \in Agents : apc[a] \notin {"loop", "failed"}
    /\ \A q \in gave_up : q \in DOMAIN results
    /\ (pc = "join" /\ num_agents >= 1 /\ unfinished_tasks > 0) =>
           \E a \in Agents : apc[a] \in {"created", "delay", "search", "backoff"}
    /\ pc = "gather" => cancel = Agents
    /\ Returned => \A i \in Items : marks[i] = 1

C3_FailureStaysLocal == [][C3_StepAfterLastFailure /\ C3_PoolGoesOn']_vars

C3_Witness ==
    /\ Returned
    /\ search_queries = <<"a", "b", "b">>
    /\ gave_up = {"a"}
    /\ raw["a"] = <<>>
    /\ raw["b"] # <<>>

\* C4: an item is never tried more than MAX_RETRIES times; the failed attempt
\* numbered n is followed by a backoff of 2^n, so the waits are 1, 2, 4 and
\* strictly increasing; and after the backoff of the last attempt no further
\* attempt is made and the empty list is what is returned and stored.
C4_Waits ==
    \A a \in Agents :
        /\ calls[a] <= MAX_RETRIES
        /\ Len(waits[a]) <= MAX_RETRIES
        /\ \A k \in 1 .. Len(waits[a]) : waits[a][k] = Pow2(k - 1)
        /\ \A k \in 2 .. Len(waits[a]) : waits[a][k - 1] < waits[a][k]
        /\ apc[a] = "search" => (calls[a] = attempt[a] + 1 /\ Len(waits[a]) = attempt[a])
        /\ apc[a] = "backoff" => (calls[a] = attempt[a] + 1 /\ Len(waits[a]) = calls[a])

C4_StepAfterLastBackoff ==
    \A a \in Agents :
        /\ (apc[a] = "backoff" /\ apc'[a] = "search") => calls[a] < MAX_RETRIES
        /\ (apc[a] = "backoff" /\ calls[a] < MAX_RETRIES /\ apc'[a] # apc[a]) =>
               (apc'[a] = "search" /\ calls'[a] = calls[a] + 1)
        /\ (Exhausted(a) /\ apc'[a] # apc[a]) =>
               /\ waits[a] = <<1, 2, 4>>
               /\ apc'[a] = "delay"
               /\ results'[query[a]] = <<>>
               /\ query[a] \in gave_up'

C4_ExactlyMaxRetriesAttempts == [][C4_StepAfterLastBackoff /\ C4_Waits']_vars

C4_Witness ==
    \E a \in Agents :
        /\ apc[a] = "delay"
        /\ query[a] \in gave_up
        /\ results[query[a]] = <<>>
        /\ Len(search_queries) = 1

RECURSIVE SumUpTo(_, _)
SumUpTo(f, n) == IF n = 0 THEN 0 ELSE f[n] + SumUpTo(f, n - 1)

\* C5: no item is handed out more than once, no two agents handle the same
\* item, and the items handed out and the items still pending are together
\* the items put, whatever N and M are (N > 1 and M > N included).
C5_EachItemToOneAgent ==
    Seeded =>
        /\ \A i \in Items : gets[i] <= 1
        /\ \A a, b \in Agents : (a # b /\ item[a] # 0) => item[a] # item[b]
        /\ SumUpTo(gets, Len(search_queries)) + Len(task_queue) = Len(search_queries)
        /\ SumUpTo(gets, Len(search_queries)) <= Len(search_queries)

C5_Witness ==
    /\ num_agents > 1
    /\ Len(search_queries) > num_agents
    /\ \A i \in Items : gets[i] = 1
    /\ \E a, b \in Agents : a # b /\ Handling(a) /\ Handling(b)

\* C6: every item that get has handed out and that no agent is handling any
\* more has been marked done exactly once, and no item is marked twice, on
\* every way out of the handling: a return, exhausted retries, an exception, a
\* cancellation.
C6_MarkedExactlyOnce ==
    Seeded \/ pc = "interrupted" =>
        \A i \in Items :
            /\ marks[i] <= 1
            /\ (gets[i] >= 1 /\ ~ \E a \in Agents : item[a] = i) => marks[i] = 1

\* the post-processing as the specification words it
RECURSIVE Pick(_, _, _)
Pick(s, keep, k) ==
    IF k > Len(s) THEN <<>>
    ELSE (IF k \in keep THEN <<s[k]>> ELSE <<>>) \o Pick(s, keep, k + 1)

DedupFirst(s) == Pick(s, {i \in 1 .. Len(s) : \A j \in 1 .. (i - 1) : s[j].url # s[i].url}, 1)
NotBlacklisted(s) ==
    Pick(s, {i \in 1 .. Len(s) : \A k \in 1 .. Len(BLACKLIST_DOMAINS) :
                                     s[i].domain # BLACKLIST_DOMAINS[k]}, 1)
AtMost(s, m) == SubSeq(s, 1, Min(Len(s), m))
HasDuplicateUrl(s) == \E i, j \in 1 .. Len(s) : i < j /\ s[i].url = s[j].url
HasBlacklisted(s) == \E i \in 1 .. Len(s) : s[i].domain \in {"example.com", "spam-site.com"}

\* C7: for every query and every list the agents left for it, what run returns
\* is that list deduplicated by url keeping the first occurrence, then without
\* the blacklisted domains, then cut to its first max_results entries (for every
\* limit that a list can be cut to, max_results >= 0).
C7_SameAsDedupFilterTruncate ==
    (Returned /\ max_results >= 0) =>
        \A q \in DOMAIN results :
            results[q] = AtMost(NotBlacklisted(DedupFirst(raw[q])), max_results)

C7_Witness ==
    /\ Returned
    /\ max_results = 1
    /\ HasDuplicateUrl(raw["a"])
    /\ HasBlacklisted(raw["a"])
    /\ Len(raw["a"]) = 3
    /\ Len(results["a"]) = 1

\* C8: no list of the returned mapping has two entries with the same url.
C8_NoTwoEqualUrls ==
    Returned => \A q \in DOMAIN results : ~ HasDuplicateUrl(results[q])

C8_Witness ==
    /\ Returned
    /\ HasDuplicateUrl(raw["a"])
    /\ Len(results["a"]) = 2

\* C9: no entry of the returned mapping has a blacklisted domain.
C9_NoBlacklistedDomain ==
    Returned => \A q \in DOMAIN results : ~ HasBlacklisted(results[q])

C9_Witness ==
    /\ Returned
    /\ HasBlacklisted(raw["a"])
    /\ Len(raw["a"]) = 3
    /\ Len(results["a"]) = 1

\* C10 as stated: for every integer max_results, every returned list has at
\* most max_results entries.
C10_AtMostMaxResults ==
    Returned => \A q \in DOMAIN results : Len(results[q]) <= max_results

\* C10 as amended: for every max_results >= 0 every returned list has at most
\* max_results entries; for a negative max_results it is the deduplicated,
\* filtered list without its last -max_results entries.
C10_AtMostNonNegativeMaxResults ==
    Returned =>
        \A q \in DOMAIN results :
            LET n == Len(NotBlacklisted(DedupFirst(raw[q])))
            IN /\ max_results >= 0 => Len(results[q]) <= max_results
               /\ max_results < 0 => Len(results[q]) = Max(n + max_results, 0)

C10_Witness ==
    /\ Returned
    /\ max_results = 2
    /\ Len(NotBlacklisted(DedupFirst(raw["a"]))) = 3
    /\ Len(results["a"]) = 2

FirstAt(s, url) ==
    CHOOSE i \in 1 .. Len(s) : s[i].url = url /\ \A j \in 1 .. (i - 1) : s[j].url # url

\* C11: every entry of a returned list is the earliest entry with its url of
\* the list the agents left, the entries come in the order in which those
\* earliest entries arrived, and for a limit max_results >= 0 the returned list
\* is exactly the first min(n, max_results) of the n deduplicated results that
\* are not blacklisted.
C11_ArrivalOrderKept ==
    Returned =>
        \A q \in DOMAIN results :
            LET out == results[q]
                acc == raw[q]
                kept == NotBlacklisted(DedupFirst(acc))
            IN /\ \A k \in 1 .. Len(out) :
                      /\ \E i \in 1 .. Len(acc) : acc[i].url = out[k].url
                      /\ out[k] = acc[FirstAt(acc, out[k].url)]
               /\ \A k, l \in 1 .. Len(out) :
                      k < l => FirstAt(acc, out[k].url) < FirstAt(acc, out[l].url)
               /\ max_results >= 0 =>
                      /\ Len(out) = Min(Len(kept), max_results)
                      /\ \A k \in 1 .. Len(out) : out[k] = kept[k]

C11_Witness ==
    /\ Returned
    /\ max_results = 1
    /\ Len(raw["a"]) = 3
    /\ raw["a"][1].url = raw["a"][2].url
    /\ raw["a"][1] # raw["a"][2]
    /\ Len(NotBlacklisted(DedupFirst(raw["a"]))) = 2
    /\ results["a"] = <<raw["a"][1]>>

\* a call of run with no query post-processes the mapping that the call before
\* returned: the step that ends it
Reprocesses == pc = "gather" /\ search_queries = <<>> /\ pc' = "returned"

\* C12 as stated: post-processing the lists that post-processing returned,
\* with the same blacklist and the same limit, returns the same lists, for
\* every list.
C12_ReprocessingChangesNothing == [][Reprocesses => results' = results]_vars

\* C12 as amended: post-processing its own output returns the same lists for
\* every list and every limit max_results >= 0; for a negative max_results it
\* takes the last -max_results entries away again.
C12_IdempotentForNonNegativeLimit ==
    [][Reprocesses =>
           /\ max_results >= 0 => results' = results
           /\ max_results < 0 =>
                  /\ DOMAIN results' = DOMAIN results
                  /\ \A q \in DOMAIN results :
                         results'[q] = AtMost(results[q], Max(Len(results[q]) + max_results, 0))]_vars

C12_Witness ==
    /\ Returned
    /\ search_queries = <<>>
    /\ max_results = 2
    /\ Len(results["a"]) = 2
    /\ raw = results

\* the request of agent a comes back with resp
Receives(a, resp) == apc[a] = "search" /\ SearchCompletes(a, resp)

\* C13: an attempt whose response has a status other than 200 is a failed
\* attempt, handled as a transport error is: the agent goes into the backoff
\* of that attempt and, when fewer than MAX_RETRIES attempts have been made,
\* makes a further one.
C13_OtherStatusIsRetried ==
    [][\A a \in Agents :
           Receives(a, Http(503, <<>>)) =>
               /\ Receives(a, TransportError)
               /\ apc'[a] = "backoff"
               /\ calls'[a] = calls[a]]_vars

\* C14: an attempt whose response has content that the parser finds no result
\* in is a failed attempt, handled as a fetch failure is: the agent goes into
\* the backoff of that attempt and retries up to MAX_RETRIES.
C14_EmptyParseIsRetried ==
    [][\A a \in Agents :
           (parse_search_results(MalformedPage) = <<>> /\ Receives(a, Http(200, MalformedPage))) =>
               /\ apc'[a] = "backoff"
               /\ waits'[a] = Append(waits[a], Backoff(attempt[a]))]_vars

\* C15: with at least one agent and under fair scheduling, whenever run waits
\* in join, join eventually unblocks, and by then every item put has been
\* handed out and marked done and the counter is zero.
C15_JoinEventuallyUnblocks ==
    (pc = "join" /\ num_agents >= 1) ~>
        (/\ pc = "gather"
         /\ unfinished_tasks = 0
         /\ task_queue = <<>>
         /\ \A i \in Items : gets[i] = 1 /\ marks[i] = 1)

C15_Witness ==
    /\ pc = "gather"
    /\ Len(search_queries) = MaxQueries
    /\ num_agents = MaxAgents
    /\ gave_up # {}
    /\ unfinished_tasks = 0
    /\ \A i \in Items : gets[i] = 1 /\ marks[i] = 1

\* C16: once run has cancelled the agent tasks, under fair scheduling every
\* agent ends in its terminal state, whether it was suspended in get on the
\* empty queue, sleeping REQUEST_DELAY or never given an item, and run returns;
\* from the cancellation on no agent takes an item or leaves the terminal state.
C16_CancelledAgentsEnd ==
    /\ (pc = "gather") ~> (Returned /\ \A a \in Agents : apc[a] = "done")
    /\ [][\A a \in Agents :
              a \in cancel =>
                  /\ gets' = gets /\ task_queue' = task_queue
                  /\ apc'[a] \in {apc[a], "done"}
                  /\ item'[a] = 0]_vars

C16_Witness ==
    /\ pc = "gather"
    /\ cancel = Agents
    /\ Len(search_queries) < num_agents
    /\ \E a, b \in Agents : apc[a] = "delay" /\ apc[b] = "get"

\* C17: whenever an agent's task ends by cancellation, the agent holds no
\* item: it is in no attempt and in no backoff, so every item it was handed
\* has had its result stored and has been marked done.
C17_CancelledHoldsNothing ==
    [][\A a \in Agents :
           (apc[a] # "done" /\ apc'[a] = "done") =>
               /\ item[a] = 0
               /\ ~ Handling(a)]_vars

\* C18: the mapping a call of run returns has entries for the queries of that
\* call only, also when it is not the first call on the Scraper.
C18_OnlyTheQueriesOfTheCall ==
    Returned => DOMAIN results \subseteq Range(search_queries)

Occurrences(q) == Cardinality({i \in Items : search_queries[i] = q})
PairwiseDistinct == \A i, j \in Items : i # j => search_queries[i] # search_queries[j]

\* C19 as stated: during a run no key is written more than once, no two agents
\* are handling the same query at the same time, and when run returns every
\* query of the input has been written exactly once, for every query list.
C19_EachKeyWrittenOnce ==
    Seeded =>
        /\ \A q \in QueryStrings : writes[q] <= 1
        /\ \A a, b \in Agents :
               (a # b /\ Handling(a) /\ Handling(b)) => query[a] # query[b]
        /\ (Returned /\ num_agents >= 1) => \A q \in Range(search_queries) : writes[q] = 1

\* C19 as amended: during a run each item is handled by one agent invocation,
\* which writes its key once, so a key is written once for each occurrence of
\* its string in the input (as many times as its items have been marked, and
\* once per occurrence when run returns), and two agents that handle the same
\* string at the same time handle different items; when the queries are
\* pairwise distinct every key is written exactly once and no two agents
\* handle the same query at the same time.
C19_EachKeyWrittenOncePerOccurrence ==
    Seeded =>
        /\ \A q \in QueryStrings :
               /\ writes[q] = Cardinality({i \in Items : search_queries[i] = q /\ marks[i] = 1})
               /\ writes[q] <= Occurrences(q)
               /\ (Returned /\ num_agents >= 1) => writes[q] = Occurrences(q)
        /\ \A a, b \in Agents :
               (a # b /\ Handling(a) /\ Handling(b)) =>
                   /\ item[a] # item[b]
                   /\ query[a] = search_queries[item[a]]
                   /\ PairwiseDistinct => query[a] # query[b]

C19_Witness ==
    /\ Returned
    /\ search_queries = <<"a", "b">>
    /\ num_agents = 2
    /\ writes["a"] = 1
    /\ writes["b"] = 1
    /\ gave_up = {"b"}

Put == Len(search_queries)
MarkedDone == SumUpTo(marks, Len(marks))
HandedOut == SumUpTo(gets, Len(gets))

\* C20: in every state the queue's counter is the number of items put minus
\* the number of items marked done and is not negative, no item is marked done
\* more often than it was handed out, and the wait in join ends exactly when
\* the counter is zero: it can resume when and only when it is, and run is past
\* it only with the counter at zero.
C20_CounterIsPutMinusDone ==
    /\ unfinished_tasks = Put - MarkedDone
    /\ unfinished_tasks >= 0
    /\ MarkedDone <= HandedOut
    /\ \A i \in Items : marks[i] <= gets[i]
    /\ pc = "join" => (ENABLED JoinReturns <=> unfinished_tasks = 0)
    /\ pc \in {"gather", "returned"} => unfinished_tasks = 0

C20_Witness ==
    /\ pc = "join"
    /\ Put = MaxQueries
    /\ MarkedDone = 2
    /\ HandedOut = MaxQueries
    /\ unfinished_tasks = 1
    /\ \E a \in Agents : Exhausted(a)

\* agent a is handed an item in this step
Dequeues(a) == item[a] = 0 /\ item'[a] # 0

\* C21: an agent is handed an item only as the first thing it does or out of
\* the REQUEST_DELAY sleep that followed its item before, and every item an
\* agent is done with, its fetch succeeded or all its attempts failed, leaves
\* the agent in that sleep: no agent dequeues twice without the pause between.
C21_PauseBetweenDequeues ==
    [][\A a \in Agents :
           /\ Dequeues(a) => apc[a] \in {"created", "delay"}
           /\ (item[a] # 0 /\ item'[a] = 0 /\ a \notin cancel) => apc'[a] = "delay"
           /\ apc'[a] = "created" => apc[a] \in {"new", "created"}]_vars

C21_Witness ==
    \E a \in Agents :
        /\ Len(search_queries) = 3
        /\ apc[a] = "search"
        /\ item[a] = 3
        /\ marks[1] = 1 /\ marks[2] = 1
        /\ gave_up = {search_queries[2]}
        /\ \A b \in Agents \ {a} : apc[b] = "created"

\* the step in which run post-processes the mapping and returns it
PostProcesses == pc' = "returned" /\ results' = PostProcess(results, max_results)

\* C22: from the moment the counter of a seeded queue is zero no agent writes
\* to the mapping any more: the lists that join's return finds are the ones
\* the agents left, and the only change after it is run's post-processing.
C22_NoAgentWriteAfterJoin ==
    [][(Seeded /\ (unfinished_tasks = 0 \/ pc \in {"gather", "returned"})) =>
           /\ writes' = writes
           /\ results' # results => (pc = "gather" /\ PostProcesses)
           /\ pc = "returned" => results' = results]_vars

C22_Witness ==
    /\ Returned
    /\ num_agents = MaxAgents
    /\ Len(search_queries) = MaxQueries
    /\ results # raw
    /\ \E q \in DOMAIN raw : writes[q] = 2

\* C23: while an agent is suspended in a request or in a backoff sleep, every
\* other agent that is not cancelled can take its next step: it is handed the
\* head of a non-empty queue, its request can come back, its backoff can end;
\* and the steps of the others leave the suspended agent where it is.
C23_Unblocked ==
    \A a, b \in Agents :
        (a # b /\ Handling(a) /\ b \notin cancel) =>
            /\ (apc[b] \in {"created", "delay", "loop"} /\ task_queue # <<>>) =>
                   ENABLED AgentTakes(b)
            /\ apc[b] = "search" => ENABLED Receives(b, TransportError)
            /\ apc[b] = "backoff" => ENABLED BackoffElapses(b)

C23_LeftAsleep ==
    \A a, b \in Agents :
        (a # b /\ Handling(a) /\ (item'[b] # item[b] \/ apc'[b] # apc[b])) =>
            /\ apc'[a] = apc[a]
            /\ item'[a] = item[a]
            /\ calls'[a] = calls[a]
            /\ waits'[a] = waits[a]

C23_OthersGoOnDuringBackoff == []C23_Unblocked /\ [][C23_LeftAsleep]_vars

C23_Witness ==
    \E a, b \in Agents :
        /\ a # b
        /\ Len(search_queries) = 3
        /\ apc[a] = "backoff" /\ item[a] = 1 /\ calls[a] = 1
        /\ marks[2] = 1
        /\ apc[b] = "search" /\ item[b] = 3

\* C24: an agent has at most one attempt for its item in progress, and it is
\* the attempt that follows the outcomes and the backoffs of all the earlier
\* ones: attempt n + 1 starts only in the step that ends the backoff of the
\* failed attempt n, and an item is in the hands of one agent only.
C24_OneAttemptAtATime ==
    /\ \A a \in Agents :
           /\ apc[a] = "search" =>
                  calls[a] = attempt[a] + 1 /\ Len(waits[a]) = attempt[a]
           /\ apc[a] = "backoff" =>
                  calls[a] = attempt[a] + 1 /\ Len(waits[a]) = attempt[a] + 1
    /\ \A a, b \in Agents : (a # b /\ item[a] # 0) => item[a] # item[b]

C24_NextAttemptAfterBackoff ==
    \A a \in Agents :
        (item[a] # 0 /\ item'[a] = item[a] /\ calls'[a] # calls[a]) =>
            /\ apc[a] = "backoff" /\ apc'[a] = "search"
            /\ attempt'[a] = attempt[a] + 1
            /\ calls'[a] = calls[a] + 1
            /\ waits'[a] = waits[a]

C24_AttemptsAreSequential ==
    []C24_OneAttemptAtATime /\ [][C24_NextAttemptAfterBackoff]_vars

C24_Witness ==
    \E a \in Agents :
        /\ apc[a] = "search"
        /\ attempt[a] = 2
        /\ calls[a] = 3
        /\ waits[a] = <<1, 2>>
        /\ num_agents = MaxAgents

\* C25: when the request of attempt n comes back without an exception, the
\* agent stores what search returned for it and is done with the item at
\* once, with no further attempt, no backoff and no "all attempts failed":
\* it has made n + 1 attempts and the n backoffs 1, 2, ... between them.
C25_StopsAtFirstSuccess ==
    [][\A a \in Agents : \A resp \in Responses \ {TransportError} :
           (apc'[a] # apc[a] /\ Receives(a, resp)) =>
               /\ apc'[a] = "delay"
               /\ item'[a] = 0
               /\ query[a] \in DOMAIN results'
               /\ results'[query[a]] = search(resp).value
               /\ gave_up' = gave_up
               /\ calls[a] = attempt[a] + 1
               /\ Len(waits[a]) = attempt[a]
               /\ \A k \in 1 .. Len(waits[a]) : waits[a][k] = Pow2(k - 1)]_vars

C25_Witness ==
    \E a \in Agents :
        /\ apc[a] = "search"
        /\ attempt[a] = 1
        /\ waits[a] = <<1>>
        /\ ENABLED Receives(a, Http(200, ScenarioPage))

\* C26: run post-processes the mapping only when every agent task has ended,
\* no agent writes to the mapping between the cancellation and that step or
\* after it, and the step leaves the keys of the mapping as they are.
C26_TasksOver == Returned => \A a \in Agents : apc[a] \in {"done", "failed"}

C26_PostProcessingStep ==
    /\ (pc # "returned" /\ pc' = "returned") =>
           /\ \A a \in Agents : apc[a] \in {"done", "failed"}
           /\ results' = PostProcess(results, max_results)
           /\ DOMAIN results' = DOMAIN results
    /\ (pc = "gather" /\ pc' = "gather") => results' = results
    /\ pc \in {"gather", "returned"} => writes' = writes
    /\ pc = "returned" => results' = results

C26_PostProcessingAfterAgents == []C26_TasksOver /\ [][C26_PostProcessingStep]_vars

C26_Witness ==
    /\ Returned
    /\ num_agents = MaxAgents
    /\ \A a \in Agents : apc[a] = "done"
    /\ DOMAIN results = {"a", "b"}
    /\ results["a"] # raw["a"]
    /\ results["b"] = <<>>

\* C27: when a query string occurs more than once in the input, under fair
\* scheduling join still unblocks with every occurrence handed out and marked
\* done; an agent can take an occurrence while another agent is handling the
\* same string; each write to the key replaces the value it had, so the key
\* holds the last value written; and the returned mapping has one key for
\* each distinct string, written once per occurrence.
C27_JoinUnblocks ==
    (pc = "join" /\ num_agents >= 1 /\ ~ PairwiseDistinct) ~>
        (pc = "gather" /\ \A i \in Items : gets[i] = 1 /\ marks[i] = 1)

C27_OneKeyPerString ==
    /\ (Returned /\ num_agents >= 1) =>
           /\ Cardinality(DOMAIN results) = Cardinality(Range(search_queries))
           /\ \A q \in QueryStrings : writes[q] = Occurrences(q)
    /\ \A a, b \in Agents :
           (/\ a # b /\ Handling(a) /\ b \notin cancel
            /\ apc[b] \in {"created", "delay"}
            /\ task_queue # <<>> /\ Head(task_queue) = query[a]) => ENABLED AgentTakes(b)

C27_LastWriteStays ==
    \A a \in Agents :
        (item[a] # 0 /\ item'[a] = 0 /\ a \notin cancel) =>
            /\ DOMAIN results' = DOMAIN results \cup {query[a]}
            /\ \A k \in DOMAIN results \ {query[a]} : results'[k] = results[k]
            /\ Exhausted(a) => results'[query[a]] = <<>>
            /\ \A resp \in Responses \ {TransportError} :
                   Receives(a, resp) => results'[query[a]] = search(resp).value

C27_RepeatedQueries ==
    C27_JoinUnblocks /\ []C27_OneKeyPerString /\ [][C27_LastWriteStays]_vars

C27_Witness ==
    /\ Returned
    /\ search_queries = <<"a", "b", "a">>
    /\ writes["a"] = 2
    /\ DOMAIN results = {"a", "b"}
    /\ "a" \in gave_up
    /\ raw["a"] # <<>>

\* C28: a Scraper with no agent that is run with at least one query stays in
\* join for ever: the counter stays at the number of queries put, join cannot
\* resume, and no step of the program is left.
C28_NoAgentNeverReturns ==
    (num_agents = 0 /\ pc # "constructed" /\ Len(search_queries) >= 1) =>
        /\ pc = "join"
        /\ unfinished_tasks = Len(search_queries)
        /\ task_queue = search_queries
        /\ ~ ENABLED JoinReturns
        /\ ~ ENABLED Next

C28_Witness ==
    /\ num_agents = 0
    /\ pc = "join"
    /\ Len(search_queries) = MaxQueries
    /\ unfinished_tasks = MaxQueries

\* C29: run with an empty query list does not wait in join: it cancels the
\* agent tasks at once, none of which is ever handed an item or sends a
\* request, and under fair scheduling it returns, with the empty mapping.
C29_NothingDone ==
    (pc # "constructed" /\ search_queries = <<>>) =>
        /\ pc \in {"gather", "returned"}
        /\ cancel = Agents
        /\ \A a \in Agents : apc[a] \in {"created", "done"} /\ item[a] = 0 /\ calls[a] = 0
        /\ gets = <<>>
        /\ results = NoResults

C29_EmptyInputReturnsEmpty ==
    /\ []C29_NothingDone
    /\ (pc = "gather" /\ search_queries = <<>>) ~> (Returned /\ results = NoResults)

C29_Witness ==
    /\ Returned
    /\ search_queries = <<>>
    /\ num_agents = MaxAgents
    /\ \A a \in Agents : apc[a] = "done"
    /\ results = NoResults

\* C30: get_num_agents and get_max_results return the configured default
\* when the option is missing or 0, and the parsed value as it is for every
\* other integer, the negative ones included.
C30_ZeroIsAbsent ==
    args.parsed =>
        /\ num_agents = (IF args.num_agents \in {Absent, Given(0)}
                         THEN NUM_AGENTS ELSE args.num_agents[1])
        /\ max_results = (IF args.max_results \in {Absent, Given(0)}
                          THEN MAX_RESULTS_PER_QUERY ELSE args.max_results[1])

C30_Witness ==
    /\ Returned
    /\ args.num_agents = Given(0)
    /\ num_agents = NUM_AGENTS
    /\ args.max_results = Given(-1)
    /\ max_results = -1
    /\ DOMAIN results = {"a"}

====
